---- MODULE Spec2Model ----
(***************************************************************************)
(* A model of mumax-oommf-tools: the OVF 2.0 single-file reader            *)
(* (io/ovf2_reader.py), the HDF5 aggregator (io/hdf5_store.py) and the     *)
(* result reader (io/out_reader.py).                                       *)
(*                                                                         *)
(* Text is a sequence of one-character strings.  A file is a sequence of   *)
(* tokens: a text line (its characters, the terminating "\n" implied) or   *)
(* a binary word (its bytes, little endian).  Byte offsets are those of    *)
(* the file the tokens spell out.                                          *)
(***************************************************************************)
EXTENDS Integers, Sequences, FiniteSets, TLC

\* ------------------------------------------------------------------ bounds
MaxFiles == 3       \* files in a simulation folder
MaxNodes == 3       \* largest node count along one axis of a generated frame

\* --------------------------------------------------------- configs/ovf2.py
OVF2_FIRST_LINE == <<"#"," ","O","O","M","M","F"," ","O","V","F"," ","2",".","0","\n">>
HEADER_BEGIN_MARKER == <<"#"," ","B","e","g","i","n",":"," ","H","e","a","d","e","r","\n">>
HEADER_END_MARKER == <<"#"," ","E","n","d",":"," ","H","e","a","d","e","r","\n">>
HEADER_READ_BYTES == 65536
DATA_BEGIN_MARKER == <<"#"," ","B","e","g","i","n",":"," ","D","a","t","a">>
DATA_END_MARKER == <<"#"," ","E","n","d",":"," ","D","a","t","a">>
BINARY4_FLAG == <<56, 180, 150, 73>>
BINARY8_FLAG == <<64, 222, 119, 131, 33, 18, 220, 66>>

K_Title == <<"T","i","t","l","e">>
K_meshtype == <<"m","e","s","h","t","y","p","e">>
K_meshunit == <<"m","e","s","h","u","n","i","t">>
K_valuedim == <<"v","a","l","u","e","d","i","m">>
K_valuelabels == <<"v","a","l","u","e","l","a","b","e","l","s">>
K_valueunits == <<"v","a","l","u","e","u","n","i","t","s">>
K_xnodes == <<"x","n","o","d","e","s">>
K_ynodes == <<"y","n","o","d","e","s">>
K_znodes == <<"z","n","o","d","e","s">>
K_xstepsize == <<"x","s","t","e","p","s","i","z","e">>
K_ystepsize == <<"y","s","t","e","p","s","i","z","e">>
K_zstepsize == <<"z","s","t","e","p","s","i","z","e">>
K_xmin == <<"x","m","i","n">>
K_ymin == <<"y","m","i","n">>
K_zmin == <<"z","m","i","n">>
K_xmax == <<"x","m","a","x">>
K_ymax == <<"y","m","a","x">>
K_zmax == <<"z","m","a","x">>
K_xbase == <<"x","b","a","s","e">>
K_ybase == <<"y","b","a","s","e">>
K_zbase == <<"z","b","a","s","e">>

IntKeys == {K_valuedim, K_xnodes, K_ynodes, K_znodes}
FloatKeys == {K_xmin, K_ymin, K_zmin, K_xmax, K_ymax, K_zmax,
              K_xbase, K_ybase, K_zbase, K_xstepsize, K_ystepsize, K_zstepsize}
StrKeys == {K_Title, K_meshtype, K_meshunit, K_valuelabels, K_valueunits}

\* HEADER_DTYPES.get(key, str)
HEADER_DTYPES(key) ==
    IF key \in IntKeys THEN "int" ELSE IF key \in FloatKeys THEN "float" ELSE "str"

SchemaKeys == IntKeys \cup FloatKeys \cup StrKeys

\* The list of header keys tried for the simulation time.
K_time == <<"T","o","t","a","l"," ","s","i","m","u","l","a","t","i","o","n"," ","t","i","m","e">>
HEADER_TIME_KEY_CANDIDATES == <<K_time>>

\* ------------------------------------------------------------------- numbers
RECURSIVE Gcd(_, _)
Gcd(a, b) == IF b = 0 THEN a ELSE Gcd(b, a % b)

\* A finite non-negative number n/d in lowest terms.
Num(n, d) == LET g == Gcd(n, d) IN [n |-> n \div g, d |-> d \div g]
NaN == [n |-> 0, d |-> 0]
Zero == [n |-> 0, d |-> 1]

RECURSIVE Pow(_, _)
Pow(b, e) == IF e = 0 THEN 1 ELSE b * Pow(b, e - 1)

Min(a, b) == IF a < b THEN a ELSE b
Max(a, b) == IF a > b THEN a ELSE b

\* ---------------------------------------------------------------------- text
Digit == {"0","1","2","3","4","5","6","7","8","9"}
DigitVal(c) ==
    CASE c = "0" -> 0 [] c = "1" -> 1 [] c = "2" -> 2 [] c = "3" -> 3 [] c = "4" -> 4
      [] c = "5" -> 5 [] c = "6" -> 6 [] c = "7" -> 7 [] c = "8" -> 8 [] c = "9" -> 9

Space == {" ", "\n", "\t"}

\* str.strip(chars)
RECURSIVE LStrip(_, _)
LStrip(s, cs) == IF s # <<>> /\ Head(s) \in cs THEN LStrip(Tail(s), cs) ELSE s
RECURSIVE RStrip(_, _)
RStrip(s, cs) ==
    IF s # <<>> /\ s[Len(s)] \in cs THEN RStrip(SubSeq(s, 1, Len(s) - 1), cs) ELSE s
Strip(s, cs) == RStrip(LStrip(s, cs), cs)

StartsWith(s, p) == Len(s) >= Len(p) /\ SubSeq(s, 1, Len(p)) = p
EndsWith(s, p) == Len(s) >= Len(p) /\ SubSeq(s, Len(s) - Len(p) + 1, Len(s)) = p
RemovePrefix(s, p) == IF StartsWith(s, p) THEN SubSeq(s, Len(p) + 1, Len(s)) ELSE s
RemoveSuffix(s, p) == IF EndsWith(s, p) THEN SubSeq(s, 1, Len(s) - Len(p)) ELSE s

\* bytes.find(sub, start): the 0-based offset of the first match at or after
\* start, -1 when there is none; a negative start counts from the end.
Find(s, sub, start) ==
    LET from == IF start < 0 THEN Max(Len(s) + start, 0) ELSE start
        hits == {i \in from .. (Len(s) - Len(sub)) : SubSeq(s, i + 1, i + Len(sub)) = sub}
    IN  IF hits = {} THEN -1 ELSE CHOOSE i \in hits : \A j \in hits : i <= j

\* s[a:b] with Python's treatment of negative and out-of-range bounds
Slice(s, a, b) ==
    LET lo == IF a < 0 THEN Max(Len(s) + a, 0) ELSE Min(a, Len(s))
        hi == IF b < 0 THEN Max(Len(s) + b, 0) ELSE Min(b, Len(s))
    IN  SubSeq(s, lo + 1, hi)

\* str.splitlines()
RECURSIVE SplitLines(_)
SplitLines(s) ==
    IF s = <<>> THEN <<>>
    ELSE LET nl == Find(s, <<"\n">>, 0)
         IN  IF nl = -1 THEN <<s>>
             ELSE <<SubSeq(s, 1, nl)>> \o SplitLines(SubSeq(s, nl + 2, Len(s)))

\* the whitespace-separated words of s
RECURSIVE Words(_)
Words(s) ==
    LET t == Strip(s, Space)
        gaps == {i \in 1..Len(t) : t[i] \in Space}
        mid == (Len(t) + 1) \div 2
        Dist(i) == IF i >= mid THEN i - mid ELSE mid - i
    IN  IF t = <<>> THEN <<>>
        ELSE IF gaps = {} THEN <<t>>
        ELSE LET g == CHOOSE i \in gaps : \A j \in gaps : Dist(i) <= Dist(j)
             IN  Words(SubSeq(t, 1, g - 1)) \o Words(SubSeq(t, g + 1, Len(t)))

RECURSIVE DigitsVal(_)
DigitsVal(s) == IF s = <<>> THEN 0 ELSE 10 * DigitsVal(SubSeq(s, 1, Len(s) - 1)) + DigitVal(s[Len(s)])

AllDigits(s) == \A i \in 1..Len(s) : s[i] \in Digit

\* int(text): surrounding whitespace is ignored, then decimal digits only
ParseInt(s) ==
    LET t == Strip(s, Space)
    IN  IF t # <<>> /\ AllDigits(t) THEN [ok |-> TRUE, v |-> DigitsVal(t)]
        ELSE [ok |-> FALSE, v |-> 0]

\* float(text): surrounding whitespace is ignored, then digits with an
\* optional decimal point and at least one digit
ParseFloat(s) ==
    LET t == Strip(s, Space)
        dot == Find(t, <<".">>, 0)
        ip == IF dot = -1 THEN t ELSE SubSeq(t, 1, dot)
        fp == IF dot = -1 THEN <<>> ELSE SubSeq(t, dot + 2, Len(t))
    IN  IF AllDigits(ip) /\ AllDigits(fp) /\ Len(ip) + Len(fp) > 0
        THEN [ok |-> TRUE,
              v |-> Num(DigitsVal(ip) * Pow(10, Len(fp)) + DigitsVal(fp), Pow(10, Len(fp)))]
        ELSE [ok |-> FALSE, v |-> NaN]

\* --------------------------------------------------------------------- files
\* A token is [k |-> "line", s |-> characters] or [k |-> "bin", s |-> bytes].
Line(s) == [k |-> "line", s |-> s]
Bin(b) == [k |-> "bin", s |-> b]

TokBytes(t) == IF t.k = "line" THEN Len(t.s) + 1 ELSE Len(t.s)

RECURSIVE FileSize(_)
FileSize(toks) ==
    IF toks = <<>> THEN 0
    ELSE IF Len(toks) = 1 THEN TokBytes(toks[1])
    ELSE LET h == Len(toks) \div 2
         IN  FileSize(SubSeq(toks, 1, h)) + FileSize(SubSeq(toks, h + 1, Len(toks)))

\* The file's bytes as text; a byte of a binary word is shown as "?" and
\* matches no marker.
RECURSIVE Flat(_)
Flat(toks) ==
    IF toks = <<>> THEN <<>>
    ELSE IF Len(toks) = 1
    THEN LET t == toks[1]
         IN  IF t.k = "line" THEN t.s \o <<"\n">> ELSE [i \in 1..Len(t.s) |-> "?"]
    ELSE LET h == Len(toks) \div 2
         IN  Flat(SubSeq(toks, 1, h)) \o Flat(SubSeq(toks, h + 1, Len(toks)))

\* f.read(HEADER_READ_BYTES)
HeadOf(toks) == Slice(Flat(toks), 0, HEADER_READ_BYTES)

\* The w bytes at byte offset off; <<>> unless a binary word of that width
\* starts there.
RECURSIVE BytesAt(_, _, _)
BytesAt(toks, off, w) ==
    IF toks = <<>> \/ off < 0 THEN <<>>
    ELSE IF Len(toks) = 1
    THEN IF off = 0 /\ toks[1].k = "bin" /\ Len(toks[1].s) = w THEN toks[1].s ELSE <<>>
    ELSE LET h == Len(toks) \div 2
             before == FileSize(SubSeq(toks, 1, h))
         IN  IF off < before THEN BytesAt(SubSeq(toks, 1, h), off, w)
             ELSE BytesAt(SubSeq(toks, h + 1, Len(toks)), off - before, w)

\* ------------------------------------------------------- IEEE 754, little endian
\* Values outside the range the model's integers can hold decode to NaN.
DecodeF4(b) ==
    LET e == (b[4] % 128) * 2 + (b[3] \div 128)
        m == (b[3] % 128) * 65536 + b[2] * 256 + b[1]
        sg == IF b[4] >= 128 THEN -1 ELSE 1
    IN  IF Len(b) # 4 THEN NaN
        ELSE IF e = 0 /\ m = 0 THEN Zero
        ELSE IF e >= 127 /\ e <= 150 THEN Num(sg * (8388608 + m), Pow(2, 150 - e))
        ELSE NaN

DecodeF8(b) ==
    LET e == (b[8] % 128) * 16 + (b[7] \div 16)
        mhi == (b[7] % 16) * 65536 + b[6] * 256 + b[5]
        lo0 == b[4] = 0 /\ b[3] = 0 /\ b[2] = 0 /\ b[1] = 0
        sg == IF b[8] >= 128 THEN -1 ELSE 1
    IN  IF Len(b) # 8 THEN NaN
        ELSE IF e = 0 /\ mhi = 0 /\ lo0 THEN Zero
        ELSE IF e >= 1023 /\ e <= 1043 /\ lo0 THEN Num(sg * (1048576 + mhi), Pow(2, 1043 - e))
        ELSE NaN

\* ----------------------------------------------------- io/ovf2_reader.py
EmptyMd == [k \in {} |-> 0]
Put(md, key, val) == [k \in DOMAIN md \cup {key} |-> IF k = key THEN val ELSE md[k]]

\* line.rsplit(":", 1), key.strip("# "), value.strip()
LastColon(line) == CHOOSE i \in 1..Len(line) :
                      line[i] = ":" /\ \A j \in (i + 1)..Len(line) : line[j] # ":"
KeyOf(line) == Strip(SubSeq(line, 1, LastColon(line) - 1), {"#", " "})
ValueOf(line) == Strip(SubSeq(line, LastColon(line) + 1, Len(line)), Space)

\* The loop of extract_metadata over the header lines: the mapping built, or
\* the ValueError of the first value that int() or float() rejects.
RECURSIVE ParseLines(_, _)
ParseLines(lines, md) ==
    IF lines = <<>> THEN [err |-> "none", md |-> md, key |-> <<>>, raw |-> <<>>]
    ELSE LET line == Head(lines)
         IN  IF \A i \in 1..Len(line) : line[i] # ":"
             THEN ParseLines(Tail(lines), md)
             ELSE LET key == KeyOf(line)
                      value == ValueOf(line)
                      dtype == HEADER_DTYPES(key)
                  IN  IF dtype = "int"
                      THEN IF ParseInt(value).ok
                           THEN ParseLines(Tail(lines), Put(md, key, ParseInt(value).v))
                           ELSE [err |-> "ValueError", md |-> EmptyMd, key |-> key, raw |-> value]
                      ELSE IF dtype = "float"
                      THEN IF ParseFloat(value).ok
                           THEN ParseLines(Tail(lines), Put(md, key, ParseFloat(value).v))
                           ELSE [err |-> "ValueError", md |-> EmptyMd, key |-> key, raw |-> value]
                      ELSE ParseLines(Tail(lines), Put(md, key, value))

HeaderMarkersFound(content) ==
    Find(content, HEADER_BEGIN_MARKER, 0) # -1 /\ Find(content, HEADER_END_MARKER, 0) # -1

HeaderLines(content) ==
    LET start == Find(content, HEADER_BEGIN_MARKER, 0)
        end == Find(content, HEADER_END_MARKER, 0)
    IN  SplitLines(Slice(content, start + Len(HEADER_BEGIN_MARKER), end))

extract_metadata(content) ==
    IF ~HeaderMarkersFound(content)
    THEN [err |-> "HeaderNotFound", md |-> EmptyMd, key |-> <<>>, raw |-> <<>>]
    ELSE ParseLines(HeaderLines(content), EmptyMd)

\* np.transpose(m_flat.reshape(Z, Y, X, 3), (2, 1, 0, 3)); reshape raises
\* ValueError unless m_flat holds exactly Z*Y*X*3 values.
Index(X, Y, Z) == (0..(X - 1)) \X (0..(Y - 1)) \X (0..(Z - 1)) \X (0..2)

\* reorder_xyz reshaping to (X, Y, Z, 3) with no transposition.
reorder_xyz_NoTranspose(m_flat, X, Y, Z) ==
    IF Len(m_flat) # Z * Y * X * 3
    THEN [ok |-> FALSE, shape |-> <<>>, at |-> <<>>]
    ELSE [ok |-> TRUE, shape |-> <<X, Y, Z, 3>>,
          at |-> [p \in Index(X, Y, Z) |->
                     m_flat[((p[1] * Y + p[2]) * Z + p[3]) * 3 + p[4] + 1]]]

reorder_xyz(m_flat, X, Y, Z) ==
    IF Len(m_flat) # Z * Y * X * 3
    THEN [ok |-> FALSE, shape |-> <<>>, at |-> <<>>]
    ELSE [ok |-> TRUE, shape |-> <<X, Y, Z, 3>>,
          at |-> [p \in Index(X, Y, Z) |->
                     m_flat[((p[3] * Y + p[2]) * X + p[1]) * 3 + p[4] + 1]]]

\* np.fromstring(text, sep=" "): the leading words that parse as numbers
FromString(ws) ==
    LET bad == {i \in 1..Len(ws) : ~ParseFloat(ws[i]).ok}
        n == IF bad = {} THEN Len(ws) ELSE (CHOOSE i \in bad : \A j \in bad : i <= j) - 1
    IN  [i \in 1..n |-> ParseFloat(ws[i]).v]

TextBlockFound(content) ==
    LET start == Find(content, DATA_BEGIN_MARKER, 0)
        end == Find(content, DATA_END_MARKER, 0)
    IN  ~(start = -1 \/ end = -1 \/ end <= start)

\* lines 55-59: the values decoded from the text between the markers
DecodedText(content) ==
    LET start == Find(content, DATA_BEGIN_MARKER, 0)
        end == Find(content, DATA_END_MARKER, 0)
        payload_start == Find(content, <<"\n">>, start) + 1
        payload == Slice(content, payload_start, end)
    IN  FromString(Words(payload))

extract_magnetic_data_from_text(content) ==
    LET m_flat == DecodedText(content)
    IN  IF ~TextBlockFound(content) THEN [err |-> "DataBlockNotFound", m_flat |-> <<>>]
        ELSE IF Len(m_flat) % 3 # 0 THEN [err |-> "MalformedPayload", m_flat |-> <<>>]
        ELSE [err |-> "none", m_flat |-> m_flat]

\* lines 128-134 of read_ovf2: the mode token and the payload offset
DataMarkerEnd(head) == Find(head, <<"\n">>, Find(head, DATA_BEGIN_MARKER, 0)) + 1
ModeOf(head) ==
    LET data_marker_start == Find(head, DATA_BEGIN_MARKER, 0)
        data_marker_line == Slice(head, data_marker_start, DataMarkerEnd(head))
    IN  Strip(RemovePrefix(data_marker_line, DATA_BEGIN_MARKER), Space)

S_Text == <<"T","e","x","t">>
S_Binary4 == <<"B","i","n","a","r","y"," ","4">>
S_Binary8 == <<"B","i","n","a","r","y"," ","8">>
S_rectangular == <<"r","e","c","t","a","n","g","u","l","a","r">>

\* np.memmap(fn, dtype, offset, shape=3*N): ValueError when the file is
\* shorter than offset + 3*N*w bytes, else the 3*N words decoded.
MemmapFits(toks, offset, w, n) == FileSize(toks) >= offset + n * w
Memmap(toks, offset, w, n) ==
    [j \in 1..n |-> IF w = 4 THEN DecodeF4(BytesAt(toks, offset + (j - 1) * w, 4))
                    ELSE DecodeF8(BytesAt(toks, offset + (j - 1) * w, 8))]

\* ------------------------------------------------------------ input files
\* The files the model reads are written here the way mumax3 and OOMMF write
\* them; Defects names the ways a generated file departs from a sound one.
RECURSIVE Log2(_)
Log2(i) == IF i <= 1 THEN 0 ELSE 1 + Log2(i \div 2)

EncodeF4(i) ==
    LET p == Log2(i)
        e == 127 + p
        m == (i - Pow(2, p)) * Pow(2, 23 - p)
    IN  IF i = 0 THEN <<0, 0, 0, 0>>
        ELSE <<m % 256, (m \div 256) % 256, (e % 2) * 128 + (m \div 65536), e \div 2>>

EncodeF8(i) ==
    LET p == Log2(i)
        e == 1023 + p
        mhi == (i - Pow(2, p)) * Pow(2, 20 - p)
    IN  IF i = 0 THEN <<0, 0, 0, 0, 0, 0, 0, 0>>
        ELSE <<0, 0, 0, 0, mhi % 256, (mhi \div 256) % 256,
               (e % 16) * 16 + (mhi \div 65536), e \div 16>>

DigitChar(d) == <<"0","1","2","3","4","5","6","7","8","9">>[d + 1]
RECURSIVE IntText(_)
IntText(i) == IF i < 10 THEN <<DigitChar(i)>> ELSE IntText(i \div 10) \o <<DigitChar(i % 10)>>

\* The sample at lattice point (x, y, z) of the frame with the given seed;
\* seed 0 is the fixture of tests/test_io.py, (i+1, j+1, k+1).
Sample(seed, x, y, z) == <<x + 1 + seed, y + 1 + seed, z + 1 + seed>>

\* The samples in storage order: x fastest, then y, then z.
Stored(seed, X, Y, Z) ==
    [n \in 1..(X * Y * Z) |->
        Sample(seed, (n - 1) % X, ((n - 1) \div X) % Y, (n - 1) \div (X * Y))]

HdrLine(key, val) == Line(<<"#", " ">> \o key \o <<":", " ">> \o val)

Defects == {"first", "nohb", "nohe", "coerce", "mesh", "vdim", "nonodes",
            "mode", "nobegin", "noend", "endfirst", "flag"}

\* mode is "Text", "Binary 4" or "Binary 8"; nodes is the number of samples
\* the data block holds and extra the number of stray values after them;
\* time is the text of the time header line, <<>> for none.
ModeText(mode) == IF mode = "Text" THEN S_Text
                  ELSE IF mode = "Binary 4" THEN S_Binary4 ELSE S_Binary8

Payload(mode, st, n, nodes) ==
    LET V(k) == st[((k - 1) % Len(st)) + 1]
        count == IF n > nodes THEN 0 ELSE nodes - n + 1
    IN  IF mode = "Text"
        THEN [i \in 1..count |->
                 Line(IntText(V(n + i - 1)[1]) \o <<" ">> \o IntText(V(n + i - 1)[2])
                      \o <<" ">> \o IntText(V(n + i - 1)[3]))]
        ELSE [i \in 1..(3 * count) |->
                 LET c == V(n + ((i - 1) \div 3))[((i - 1) % 3) + 1]
                 IN  Bin(IF mode = "Binary 4" THEN EncodeF4(c) ELSE EncodeF8(c))]

MkToks(mode, dims, seed, title, time, nodes, extra, truncated, ds) ==
    LET X == dims[1]
        Y == dims[2]
        Z == dims[3]
        token == IF "mode" \in ds THEN <<"B","i","n","a","r","y"," ","2">> ELSE ModeText(mode)
        endline == <<Line(DATA_END_MARKER \o <<" ">> \o token)>>
        flag == IF mode = "Text" THEN <<>>
                ELSE IF mode = "Binary 4"
                THEN <<Bin(IF "flag" \in ds THEN EncodeF4(1) ELSE BINARY4_FLAG)>>
                ELSE <<Bin(IF "flag" \in ds THEN EncodeF8(1) ELSE BINARY8_FLAG)>>
        stray == IF extra = 0 THEN <<>>
                 ELSE IF mode = "Text" THEN <<Line(IntText(7))>>
                 ELSE IF mode = "Binary 4" THEN <<Bin(EncodeF4(7))>> ELSE <<Bin(EncodeF8(7))>>
    IN  <<Line(IF "first" \in ds
               THEN <<"#"," ","O","O","M","M","F"," ","O","V","F"," ","1",".","0">>
               ELSE SubSeq(OVF2_FIRST_LINE, 1, Len(OVF2_FIRST_LINE) - 1)),
          Line(<<"#"," ","S","e","g","m","e","n","t"," ","c","o","u","n","t",":"," ","1">>),
          Line(<<"#"," ","B","e","g","i","n",":"," ","S","e","g","m","e","n","t">>)>>
        \o (IF "nohb" \in ds THEN <<>>
            ELSE <<Line(SubSeq(HEADER_BEGIN_MARKER, 1, Len(HEADER_BEGIN_MARKER) - 1))>>)
        \o <<HdrLine(K_Title, title),
             HdrLine(K_meshtype, IF "mesh" \in ds THEN <<"i","r","r","e","g","u","l","a","r">>
                                 ELSE S_rectangular),
             HdrLine(K_meshunit, <<"m">>)>>
        \o (IF "nonodes" \in ds THEN <<>> ELSE <<HdrLine(K_xnodes, IntText(X))>>)
        \o <<HdrLine(K_ynodes, IntText(Y)), HdrLine(K_znodes, IntText(Z)),
             HdrLine(K_valuedim, IF "coerce" \in ds THEN <<"x">>
                                 ELSE IF "vdim" \in ds THEN <<"1">> ELSE <<"3">>)>>
        \o (IF time = <<>> THEN <<>> ELSE <<HdrLine(K_time, time)>>)
        \o (IF "nohe" \in ds THEN <<>>
            ELSE <<Line(SubSeq(HEADER_END_MARKER, 1, Len(HEADER_END_MARKER) - 1))>>)
        \o (IF "endfirst" \in ds THEN endline ELSE <<>>)
        \o (IF "nobegin" \in ds THEN <<>> ELSE <<Line(DATA_BEGIN_MARKER \o <<" ">> \o token)>>)
        \o flag
        \o Payload(mode, Stored(seed, X, Y, Z), 1, nodes)
        \o stray
        \o (IF truncated THEN <<>>
            ELSE (IF "noend" \in ds \/ "endfirst" \in ds THEN <<>> ELSE endline)
                 \o <<Line(<<"#"," ","E","n","d",":"," ","S","e","g","m","e","n","t">>)>>)

Modes == {"Text", "Binary 4", "Binary 8"}

\* A sound file: the frame of Sample(seed, ...) on the lattice dims.
GoodToks(mode, dims, seed, title, time) ==
    MkToks(mode, dims, seed, title, time, dims[1] * dims[2] * dims[3], 0, FALSE, {})

\* ReaderFiles: what read_ovf2 is called on directly.  Every lattice up to
\* MaxNodes per axis in every mode, text blocks with a wrong number of
\* values, truncated binary files, and files with one or two defects.
AllDims == (1..MaxNodes) \X (1..MaxNodes) \X (1..MaxNodes)
DefectDims == <<2, 1, 1>>
DefectSets == {ds \in SUBSET Defects : Cardinality(ds) <= 2}

WrongNodes(dims) ==
    LET N == dims[1] * dims[2] * dims[3] IN {N - 1, N + 1, N \div 3}

ReaderFiles ==
    {GoodToks(mode, dims, 0, <<"m">>, <<>>) : mode \in Modes, dims \in AllDims}
    \cup UNION {{MkToks(mode, dims, 0, <<"m">>, <<>>, nodes, 0, mode # "Text", {}) :
                    mode \in Modes, nodes \in WrongNodes(dims)} :
                dims \in {<<1, 1, 1>>, <<2, 2, 2>>, <<3, 1, 1>>}}
    \cup {MkToks("Text", <<2, 2, 2>>, 0, <<"m">>, <<>>, 8, 1, FALSE, {})}
    \cup {MkToks(mode, DefectDims, 0, <<"m">>, <<>>, 2, 0, FALSE, ds) :
             mode \in Modes, ds \in DefectSets}

\* --------------------------------------------------------------------- state
VARIABLES
    folder,     \* the simulation folder: file name -> tokens
    h5,         \* the container file at h5_path
    args,       \* the arguments of the running read_simulation_result
    spc,        \* position of read_simulation_result
    bpc,        \* position of build_h5_from_ovfs
    b,          \* locals of build_h5_from_ovfs
    rpc,        \* position of read_ovf2
    rd,         \* locals of read_ovf2
    out,        \* what the call made by the user returned or raised
    builds,     \* history: calls of build_h5_from_ovfs made by the running call
    reads,      \* history: the files read_ovf2 was called on by the running build
    written,    \* history: the slots of h5 that a frame was written into
    h5pre       \* history: the container file when the running call began

vars == <<folder, h5, args, spc, bpc, b, rpc, rd, out, builds, reads, written, h5pre>>

NoFrame == [ok |-> FALSE, shape |-> <<>>, at |-> <<>>]
NoH5 == [exists |-> FALSE, datasets |-> {}, shape |-> <<>>, dtype |-> "",
         mag |-> <<>>, time |-> <<>>, attrs |-> EmptyMd]
RdIdle == [path |-> <<>>, toks |-> <<>>, metadata |-> EmptyMd, m_flat |-> <<>>,
           err |-> "none", stage |-> "none", key |-> <<>>, raw |-> <<>>, expected |-> 0, got |-> 0,
           dtype |-> "", mag |-> NoFrame]
NoExc == [err |-> "none", key |-> <<>>, val |-> <<>>, first_val |-> <<>>,
          path |-> <<>>, first_path |-> <<>>]
Exc(kind, path) == [NoExc EXCEPT !.err = kind, !.path = path]
BIdle == [fns |-> <<>>, first_hdr |-> EmptyMd, ti |-> 0, exc |-> NoExc]
NoOut == [status |-> "none", err |-> "none", key |-> <<>>, val |-> <<>>, first_val |-> <<>>,
          path |-> <<>>, first_path |-> <<>>,
          metadata |-> EmptyMd, time |-> <<>>, mag |-> <<>>, shape |-> <<>>]
NoArgs == [overwrite |-> FALSE, build_if_missing |-> FALSE]

\* ------------------------------------------------------- read_ovf2, by stage
RdStart(path, toks) == [RdIdle EXCEPT !.path = path, !.toks = toks]
RdFail(kind) == /\ rd' = [rd EXCEPT !.err = kind, !.stage = rpc]
                /\ rpc' = "failed"

\* StageAfter with the valuedim check ahead of the mesh type check.
StageAfter_ValuedimFirst(stage) ==
    CASE stage = "first" -> "markers"
      [] stage = "markers" -> "coerce"
      [] stage = "coerce" -> "valuedim"
      [] stage = "valuedim" -> "mesh"
      [] stage = "mesh" -> "nodes"
      [] stage = "nodes" -> "mode"

\* The order of the checks of read_ovf2 up to the mode dispatch (lines 98-134).
StageAfter(stage) ==
    CASE stage = "first" -> "markers"
      [] stage = "markers" -> "coerce"
      [] stage = "coerce" -> "mesh"
      [] stage = "mesh" -> "valuedim"
      [] stage = "valuedim" -> "nodes"
      [] stage = "nodes" -> "mode"

RdRest == UNCHANGED <<folder, h5, args, spc, bpc, b, out, builds, reads, written, h5pre>>

Upper == <<"A","B","C","D","E","F","G","H","I","J","K","L","M",
           "N","O","P","Q","R","S","T","U","V","W","X","Y","Z">>
Lowercase == <<"a","b","c","d","e","f","g","h","i","j","k","l","m",
               "n","o","p","q","r","s","t","u","v","w","x","y","z">>
Lower(s) == [i \in 1..Len(s) |->
                IF \E j \in 1..26 : Upper[j] = s[i]
                THEN Lowercase[CHOOSE j \in 1..26 : Upper[j] = s[i]] ELSE s[i]]

\* lines 98-107
FirstLineOk(toks) == StartsWith(HeadOf(toks), OVF2_FIRST_LINE)
RdFirstLine ==
    /\ rpc = "first"
    /\ IF ~FirstLineOk(rd.toks) THEN RdFail("InvalidHeader")
       ELSE rpc' = StageAfter(rpc) /\ rd' = rd
    /\ RdRest

\* line 109, extract_metadata lines 10-14
RdHeaderMarkers ==
    /\ rpc = "markers"
    /\ IF ~HeaderMarkersFound(HeadOf(rd.toks)) THEN RdFail("HeaderNotFound")
       ELSE rpc' = StageAfter(rpc) /\ rd' = rd
    /\ RdRest

\* line 109, extract_metadata lines 16-35
RdCoerce ==
    /\ rpc = "coerce"
    /\ LET r == extract_metadata(HeadOf(rd.toks))
       IN  IF r.err # "none"
           THEN /\ rd' = [rd EXCEPT !.err = r.err, !.stage = rpc, !.key = r.key, !.raw = r.raw]
                /\ rpc' = "failed"
           ELSE /\ rd' = [rd EXCEPT !.metadata = r.md]
                /\ rpc' = StageAfter(rpc)
    /\ RdRest

\* lines 111-116
MeshTypeOk(md) ==
    Lower(IF K_meshtype \in DOMAIN md THEN md[K_meshtype] ELSE <<>>) = S_rectangular
RdMeshType ==
    /\ rpc = "mesh"
    /\ IF ~MeshTypeOk(rd.metadata) THEN RdFail("UnsupportedMeshType")
       ELSE rpc' = StageAfter(rpc) /\ rd' = rd
    /\ RdRest

\* lines 118-123
ValuedimOk(md) == K_valuedim \in DOMAIN md /\ md[K_valuedim] = 3
RdValuedim ==
    /\ rpc = "valuedim"
    /\ IF ~ValuedimOk(rd.metadata) THEN RdFail("UnsupportedValuedim")
       ELSE rpc' = StageAfter(rpc) /\ rd' = rd
    /\ RdRest

\* lines 125-126
NodesOk(md) == {K_xnodes, K_ynodes, K_znodes} \subseteq DOMAIN md
NodeCount(md) == md[K_xnodes] * md[K_ynodes] * md[K_znodes]
RdNodes ==
    /\ rpc = "nodes"
    /\ IF ~NodesOk(rd.metadata) THEN RdFail("KeyError")
       ELSE rpc' = StageAfter(rpc) /\ rd' = rd
    /\ RdRest

\* lines 128-134 and the dispatch of lines 137, 146, 156, 168
ModeStage(mode) ==
    IF mode = S_Binary4 THEN "flag4"
    ELSE IF mode = S_Binary8 THEN "flag8"
    ELSE IF mode = S_Text THEN "text" ELSE "failed"
RdMode ==
    /\ rpc = "mode"
    /\ LET next == ModeStage(ModeOf(HeadOf(rd.toks)))
       IN  IF next = "failed" THEN RdFail("UnsupportedMode")
           ELSE rpc' = next /\ rd' = rd
    /\ RdRest

\* lines 138-144 and 147-153
FlagOk(toks, w) ==
    LET payload_start == DataMarkerEnd(HeadOf(toks))
        flag == IF payload_start + w <= HEADER_READ_BYTES
                THEN BytesAt(toks, payload_start, w) ELSE <<>>
    IN  flag = (IF w = 4 THEN BINARY4_FLAG ELSE BINARY8_FLAG)
RdFlag ==
    /\ rpc \in {"flag4", "flag8"}
    /\ LET w == IF rpc = "flag4" THEN 4 ELSE 8
       IN  IF ~FlagOk(rd.toks, w) THEN RdFail("FlagMismatch")
           ELSE /\ rpc' = "memmap"
                /\ rd' = [rd EXCEPT !.dtype = IF w = 4 THEN "<f4" ELSE "<f8"]
    /\ RdRest

\* lines 157-159
RdTextData ==
    /\ rpc = "text"
    /\ LET r == extract_magnetic_data_from_text(Flat(rd.toks))
       IN  IF r.err # "none" THEN RdFail(r.err)
           ELSE /\ rpc' = "count"
                /\ rd' = [rd EXCEPT !.m_flat = r.m_flat, !.dtype = "float32"]
    /\ RdRest

\* lines 160-167
CountOk(m_flat, N) == Len(m_flat) = N
RdNodeCount ==
    /\ rpc = "count"
    /\ LET md == rd.metadata
           N == NodeCount(md)
           mag == reorder_xyz(rd.m_flat, md[K_xnodes], md[K_ynodes], md[K_znodes])
       IN  IF ~CountOk(rd.m_flat, N)
           THEN /\ rd' = [rd EXCEPT !.err = "NodeCountMismatch", !.stage = rpc,
                                    !.expected = N, !.got = Len(rd.m_flat)]
                /\ rpc' = "failed"
           ELSE IF ~mag.ok THEN RdFail("ValueError")
           ELSE rd' = [rd EXCEPT !.mag = mag] /\ rpc' = "done"
    /\ RdRest

\* lines 175-178
RdMemmap ==
    /\ rpc = "memmap"
    /\ LET md == rd.metadata
           N == NodeCount(md)
           w == IF rd.dtype = "<f4" THEN 4 ELSE 8
           offset == DataMarkerEnd(HeadOf(rd.toks)) + w
           mag == reorder_xyz(Memmap(rd.toks, offset, w, 3 * N),
                              md[K_xnodes], md[K_ynodes], md[K_znodes])
       IN  IF ~MemmapFits(rd.toks, offset, w, 3 * N) THEN RdFail("ValueError")
           ELSE IF ~mag.ok THEN RdFail("ValueError")
           ELSE rd' = [rd EXCEPT !.mag = mag] /\ rpc' = "done"
    /\ RdRest

ReaderStep ==
    \/ RdFirstLine \/ RdHeaderMarkers \/ RdCoerce \/ RdMeshType \/ RdValuedim
    \/ RdNodes \/ RdMode \/ RdFlag \/ RdTextData \/ RdNodeCount \/ RdMemmap

\* ------------------------------------------- read_ovf2 called by the user
CallReadOvf2 ==
    /\ spc = "idle" /\ bpc = "off" /\ rpc = "off"
    /\ \E toks \in ReaderFiles :
          rd' = RdStart(<<"f", ".", "o", "v", "f">>, toks)
    /\ rpc' = "first"
    /\ UNCHANGED <<folder, h5, args, spc, bpc, b, out, builds, reads, written, h5pre>>

\* read_ovf2 returns (metadata, magnetization) or raises
ReturnReadOvf2 ==
    /\ spc = "idle" /\ bpc = "off" /\ rpc \in {"done", "failed"}
    /\ rpc' = "off"
    /\ rd' = RdIdle
    /\ UNCHANGED <<folder, h5, args, spc, bpc, b, out, builds, reads, written, h5pre>>

InitReader ==
    /\ folder = [n \in {} |-> <<>>]
    /\ h5 = NoH5
    /\ args = NoArgs
    /\ spc = "idle" /\ bpc = "off" /\ rpc = "off"
    /\ b = BIdle /\ rd = RdIdle /\ out = NoOut
    /\ builds = 0 /\ reads = <<>> /\ written = {} /\ h5pre = NoH5

NextReader == CallReadOvf2 \/ ReaderStep \/ ReturnReadOvf2

SpecReader == InitReader /\ [][NextReader]_vars

\* -------------------------------------------------------- io/hdf5_store.py
\* Characters of file names in ASCII order, for sorted().
CharOrder == <<".", "0", "1", "2", "3", "4", "5", "6", "7", "8", "9", "_",
               "a", "b", "c", "d", "e", "f", "g", "h", "i", "j", "k", "l", "m",
               "n", "o", "p", "q", "r", "s", "t", "u", "v", "w", "x", "y", "z">>
Code(c) == CHOOSE i \in 1..Len(CharOrder) : CharOrder[i] = c

RECURSIVE LexLess(_, _)
LexLess(s, t) ==
    IF t = <<>> THEN FALSE
    ELSE IF s = <<>> THEN TRUE
    ELSE IF Head(s) = Head(t) THEN LexLess(Tail(s), Tail(t))
    ELSE Code(Head(s)) < Code(Head(t))

RECURSIVE Sorted(_)
Sorted(S) ==
    IF S = {} THEN <<>>
    ELSE LET m == CHOOSE x \in S : \A y \in S \ {x} : LexLess(x, y)
         IN  <<m>> \o Sorted(S \ {m})

\* lines 15-31; the names of the folder's files, sorted
_collect_ovf_files(fd) == Sorted(DOMAIN fd)

\* lines 33-44
RECURSIVE TimeFromCandidates(_, _)
TimeFromCandidates(hdr, ks) ==
    IF ks = <<>> THEN [ok |-> FALSE, v |-> NaN]
    ELSE LET k == Head(ks)
         IN  IF k \in DOMAIN hdr
             THEN LET value == Strip(RemoveSuffix(hdr[k], <<"s">>), Space)
                      r == ParseFloat(hdr[k])
                  IN  IF r.ok THEN r ELSE TimeFromCandidates(hdr, Tail(ks))
             ELSE TimeFromCandidates(hdr, Tail(ks))

_extract_time_from_header(hdr) == TimeFromCandidates(hdr, HEADER_TIME_KEY_CANDIDATES)

\* lines 46-57: re.search(r"(\d+(?:\.\d+)?)", base), then float()
RunEnd(s, i) == CHOOSE j \in i..Len(s) :
                   /\ \A k \in i..j : s[k] \in Digit
                   /\ (j = Len(s) \/ s[j + 1] \notin Digit)
FirstNumber(s) ==
    LET starts == {i \in 1..Len(s) : s[i] \in Digit}
        i == CHOOSE x \in starts : \A y \in starts : x <= y
        j == RunEnd(s, i)
        frac == j + 2 <= Len(s) /\ s[j + 1] = "." /\ s[j + 2] \in Digit
    IN  IF starts = {} THEN <<>>
        ELSE IF frac THEN SubSeq(s, i, RunEnd(s, j + 2)) ELSE SubSeq(s, i, j)

_fallback_time_from_filename(path) ==
    IF FirstNumber(path) = <<>> THEN [ok |-> FALSE, v |-> NaN]
    ELSE ParseFloat(FirstNumber(path))

\* lines 102-106 and 154-158: header, else file name, else not-a-number
TimeOf(hdr, path) ==
    IF _extract_time_from_header(hdr).ok THEN _extract_time_from_header(hdr).v
    ELSE IF _fallback_time_from_filename(path).ok THEN _fallback_time_from_filename(path).v
    ELSE NaN

\* lines 154-156: the header and the path the time of a later frame is derived from
FrameTimeHdr(first_hdr, hdr) == first_hdr
FrameTimePath(first_path, path) == first_path

\* Mismatched comparing the frame's header with itself.
Mismatched_SelfCompare(first_hdr, hdr) ==
    {key \in SchemaKeys \cap DOMAIN first_hdr :
        key \in DOMAIN hdr /\ hdr[key] # hdr[key]}

\* lines 147-148: the schema-known keys on which hdr disagrees with first_hdr
Mismatched(first_hdr, hdr) ==
    {key \in SchemaKeys \cap DOMAIN first_hdr :
        key \in DOMAIN hdr /\ hdr[key] # first_hdr[key]}

Restrict(md, ks) == [k \in DOMAIN md \cap ks |-> md[k]]

\* lines 117-136: the container created, frame 0 and the attributes written
CreateH5(T, first_hdr, first_mag, dtype, first_t) ==
    LET X == first_mag.shape[1]
        Y == first_mag.shape[2]
        Z == first_mag.shape[3]
    IN  [exists |-> TRUE, datasets |-> {"magnetization", "time"},
         shape |-> <<T, X, Y, Z, 3>>, dtype |-> dtype,
         mag |-> [i \in 1..T |-> IF i = 1 THEN first_mag.at
                                 ELSE [p \in Index(X, Y, Z) |-> Zero]],
         time |-> [i \in 1..T |-> IF i = 1 THEN first_t ELSE Zero],
         attrs |-> Restrict(first_hdr, SchemaKeys)]

BuildRest == UNCHANGED <<folder, args, spc, out, builds, h5pre>>

\* line 96 and the call of line 100
BuildCollect ==
    /\ bpc = "collect"
    /\ LET fns == _collect_ovf_files(folder)
       IN  IF fns = <<>>
           THEN /\ bpc' = "raised"
                /\ b' = [b EXCEPT !.exc = Exc("FileNotFoundError", <<>>)]
                /\ UNCHANGED <<rpc, rd, reads>>
           ELSE /\ bpc' = "first"
                /\ b' = [b EXCEPT !.fns = fns]
                /\ rpc' = "first"
                /\ rd' = RdStart(fns[1], folder[fns[1]])
                /\ reads' = <<fns[1]>>
    /\ UNCHANGED <<h5, written>>
    /\ BuildRest

\* The call of read_ovf2 on the next file, or the end of the loop.
NextFrame(ti, fns) ==
    IF ti + 1 > Len(fns)
    THEN /\ bpc' = "done"
         /\ rpc' = "off"
         /\ rd' = RdIdle
         /\ UNCHANGED reads
    ELSE /\ bpc' = "loop"
         /\ rpc' = "first"
         /\ rd' = RdStart(fns[ti + 1], folder[fns[ti + 1]])
         /\ reads' = Append(reads, fns[ti + 1])

\* lines 100-136: frame 0 returned; the container is created and slot 0 written
BuildFirst ==
    /\ bpc = "first"
    /\ rpc \in {"done", "failed"}
    /\ IF rpc = "failed"
       THEN /\ bpc' = "raised"
            /\ b' = [b EXCEPT !.exc = Exc(rd.err, rd.path)]
            /\ UNCHANGED <<h5, written, reads, rpc, rd>>
       ELSE /\ h5' = CreateH5(Len(b.fns), rd.metadata, rd.mag, rd.dtype,
                              TimeOf(rd.metadata, rd.path))
            /\ written' = {0}
            /\ b' = [b EXCEPT !.first_hdr = rd.metadata, !.ti = 1]
            /\ NextFrame(1, b.fns)
    /\ BuildRest

\* lines 143-161: frame ti returned; checked against frame 0 and written
BuildFrame ==
    /\ bpc = "loop"
    /\ rpc \in {"done", "failed"}
    /\ LET first_path == b.fns[1]
           hdr == rd.metadata
           t == TimeOf(FrameTimeHdr(b.first_hdr, hdr), FrameTimePath(first_path, rd.path))
       IN  IF rpc = "failed"
           THEN /\ bpc' = "raised"
                /\ b' = [b EXCEPT !.exc = Exc(rd.err, rd.path)]
                /\ UNCHANGED <<h5, written, reads, rpc, rd>>
           ELSE IF Mismatched(b.first_hdr, hdr) # {}
           THEN /\ \E key \in Mismatched(b.first_hdr, hdr) :
                      b' = [b EXCEPT !.exc = [err |-> "InconsistentMetadata", key |-> key,
                                              val |-> hdr[key], first_val |-> b.first_hdr[key],
                                              path |-> rd.path, first_path |-> first_path]]
                /\ bpc' = "raised"
                /\ UNCHANGED <<h5, written, reads, rpc, rd>>
           ELSE IF rd.mag.shape # SubSeq(h5.shape, 2, 5)
           THEN /\ bpc' = "raised"
                /\ b' = [b EXCEPT !.exc = Exc("TypeError", rd.path)]
                /\ UNCHANGED <<h5, written, reads, rpc, rd>>
           ELSE /\ h5' = [h5 EXCEPT !.mag[b.ti + 1] = rd.mag.at, !.time[b.ti + 1] = t]
                /\ written' = written \cup {b.ti}
                /\ b' = [b EXCEPT !.ti = b.ti + 1]
                /\ NextFrame(b.ti + 1, b.fns)
    /\ BuildRest

\* -------------------------------------------------------- io/out_reader.py
RamSizes == {64, 1073741824}

ItemSize(dtype) == IF dtype = "<f8" THEN 8 ELSE 4
RECURSIVE Product(_)
Product(shape) == IF shape = <<>> THEN 1 ELSE Head(shape) * Product(Tail(shape))
_nbytes(shape, dtype) == Product(shape) * ItemSize(dtype)

\* lines 102-108: the shape the container's own metadata and time vector imply
ExpectedShape(f) ==
    <<Len(f.time), f.attrs[K_xnodes], f.attrs[K_ynodes], f.attrs[K_znodes], 3>>

\* lines 85-99 of read_simulation_result
CallReadSimulationResult ==
    /\ spc = "idle" /\ bpc = "off" /\ rpc = "off"
    /\ \E overwrite \in BOOLEAN, build_if_missing \in BOOLEAN :
          LET removed == h5.exists /\ overwrite
              exists == h5.exists /\ ~overwrite
          IN  /\ args' = [overwrite |-> overwrite, build_if_missing |-> build_if_missing]
              /\ h5pre' = h5
              /\ h5' = IF removed THEN NoH5 ELSE h5
              /\ written' = IF removed THEN {} ELSE written
              /\ IF ~exists /\ ~build_if_missing
                 THEN /\ spc' = "returned"
                      /\ out' = [NoOut EXCEPT !.status = "raised", !.err = "FileNotFoundError"]
                      /\ UNCHANGED <<bpc, builds>>
                 ELSE IF ~exists
                 THEN /\ spc' = "building"
                      /\ bpc' = "collect"
                      /\ builds' = builds + 1
                      /\ out' = NoOut
                 ELSE /\ spc' = "load"
                      /\ out' = NoOut
                      /\ UNCHANGED <<bpc, builds>>
    /\ reads' = <<>>
    /\ b' = BIdle
    /\ UNCHANGED <<folder, rpc, rd>>

\* build_h5_from_ovfs raised: the exception leaves read_simulation_result
RaiseFromBuild ==
    /\ spc = "building" /\ bpc = "raised"
    /\ spc' = "returned"
    /\ bpc' = "off"
    /\ out' = [NoOut EXCEPT !.status = "raised", !.err = b.exc.err, !.key = b.exc.key,
                            !.val = b.exc.val, !.first_val = b.exc.first_val,
                            !.path = b.exc.path, !.first_path = b.exc.first_path]
    /\ UNCHANGED <<folder, h5, args, b, rpc, rd, builds, reads, written, h5pre>>

\* lines 101-129: the container is validated and loaded
LoadContainer ==
    /\ \/ spc = "load"
       \/ spc = "building" /\ bpc = "done"
    /\ \E total_ram \in RamSizes :
          out' = IF ~({"magnetization", "time"} \subseteq h5.datasets)
                 THEN [NoOut EXCEPT !.status = "raised", !.err = "MissingDatasets"]
                 ELSE IF h5.shape # ExpectedShape(h5)
                 THEN [NoOut EXCEPT !.status = "raised", !.err = "ShapeMismatch"]
                 ELSE IF _nbytes(h5.shape, h5.dtype) > total_ram
                 THEN [NoOut EXCEPT !.status = "raised", !.err = "MemoryError"]
                 ELSE [NoOut EXCEPT !.status = "returned", !.metadata = h5.attrs,
                                    !.time = h5.time, !.mag = h5.mag, !.shape = h5.shape]
    /\ spc' = "returned"
    /\ bpc' = "off"
    /\ UNCHANGED <<folder, h5, args, b, rpc, rd, builds, reads, written, h5pre>>

\* the user receives the result or the exception
ReturnToUser ==
    /\ spc = "returned"
    /\ spc' = "idle"
    /\ out' = NoOut
    /\ args' = NoArgs
    /\ builds' = 0
    /\ reads' = <<>>
    /\ b' = BIdle
    /\ rpc' = "off"
    /\ rd' = RdIdle
    /\ h5pre' = NoH5
    /\ UNCHANGED <<folder, h5, bpc, written>>

\* ------------------------------------------------------- simulation folders
FileNames == {<<"a","1","b","2",".","o","v","f">>, <<"m",".","o","v","f">>,
              <<"m","_","0","1","2",".","o","v","f">>, <<"m","_","3",".","5",".","o","v","f">>}

\* The files a folder may hold, all sound: they differ in encoding, samples
\* (seed), time header, and one in xnodes and Title.
FolderDims == <<1, 1, 2>>
FolderFiles ==
    {[mode |-> "Binary 4", dims |-> FolderDims, seed |-> 0, title |-> <<"m">>, time |-> <<>>],
     [mode |-> "Binary 8", dims |-> FolderDims, seed |-> 1, title |-> <<"m">>,
      time |-> <<"3", ".", "5", "s">>],
     [mode |-> "Binary 4", dims |-> FolderDims, seed |-> 2, title |-> <<"m">>, time |-> <<"7">>],
     [mode |-> "Binary 4", dims |-> <<2, 1, 2>>, seed |-> 0, title |-> <<"n">>, time |-> <<>>],
     [mode |-> "Text", dims |-> FolderDims, seed |-> 3, title |-> <<"m">>, time |-> <<>>]}
ToksOf(ff) == GoodToks(ff.mode, ff.dims, ff.seed, ff.title, ff.time)
FolderToks == {ToksOf(ff) : ff \in FolderFiles}

Folders ==
    UNION {[S -> FolderToks] : S \in {S \in SUBSET FileNames : Cardinality(S) <= MaxFiles}}

Init ==
    /\ folder \in Folders
    /\ h5 = NoH5
    /\ args = NoArgs
    /\ spc = "idle" /\ bpc = "off" /\ rpc = "off"
    /\ b = BIdle /\ rd = RdIdle /\ out = NoOut
    /\ builds = 0 /\ reads = <<>> /\ written = {} /\ h5pre = NoH5

Next ==
    \/ CallReadSimulationResult
    \/ BuildCollect \/ BuildFirst \/ BuildFrame
    \/ ReaderStep
    \/ RaiseFromBuild \/ LoadContainer \/ ReturnToUser

Spec == Init /\ [][Next]_vars

\* ======================================================================
\* Properties of the single-file reader (SpecReader)
\* ======================================================================
HeaderOf(toks) == extract_metadata(HeadOf(toks)).md
DimsOf(md) == <<md[K_xnodes], md[K_ynodes], md[K_znodes]>>

\* The frame a sound file with this seed encodes, as an (X, Y, Z, 3) array.
LogicalFrame(seed, dims) ==
    [p \in Index(dims[1], dims[2], dims[3]) |->
        Num(Sample(seed, p[1], p[2], p[3])[p[4] + 1], 1)]

\* toks is one of the three encodings of the fixture frame on its lattice.
IsFixture(toks) ==
    /\ NodesOk(HeaderOf(toks))
    /\ \E mode \in Modes : toks = GoodToks(mode, DimsOf(HeaderOf(toks)), 0, <<"m">>, <<>>)

Returned == rpc \in {"done", "failed"}

\* C1: read_ovf2 succeeds on the Text, Binary 4 and Binary 8 encoding of every
\* frame and returns the (xnodes, ynodes, znodes, 3) array of the frame's
\* samples, arr[i,j,k] = (i+1, j+1, k+1) for the fixture.
C1_AllEncodingsDecode ==
    (Returned /\ IsFixture(rd.toks)) =>
        /\ rpc = "done"
        /\ rd.mag.shape = DimsOf(HeaderOf(rd.toks)) \o <<3>>
        /\ rd.mag.at = LogicalFrame(0, DimsOf(HeaderOf(rd.toks)))

\* The header and the schema of toks are valid: the first six checks pass.
SchemaValid(toks) ==
    /\ FirstLineOk(toks)
    /\ extract_metadata(HeadOf(toks)).err = "none"
    /\ MeshTypeOk(HeaderOf(toks))
    /\ ValuedimOk(HeaderOf(toks))
    /\ NodesOk(HeaderOf(toks))

TextWellFormed(toks) ==
    /\ SchemaValid(toks)
    /\ ModeOf(HeadOf(toks)) = S_Text
    /\ TextBlockFound(Flat(toks))

\* C2: in Text mode with a well-formed header and data block, read_ovf2 raises
\* the node count mismatch exactly when the number of decoded values differs
\* from 3*N, and returns the frame when it is 3*N.
C2_TextCountIs3N ==
    (Returned /\ TextWellFormed(rd.toks)) =>
        LET N == NodeCount(HeaderOf(rd.toks))
            count == Len(DecodedText(Flat(rd.toks)))
        IN  /\ (rpc = "failed" /\ rd.err = "NodeCountMismatch") <=> (count # 3 * N)
            /\ (count = 3 * N) => (rpc = "done" /\ rd.mag.ok)

\* The checks of read_ovf2 as properties of the file alone, in the order the
\* pipeline is to run them.
StageOrder == <<"first", "markers", "coerce", "mesh", "valuedim", "nodes",
                "mode", "block", "count">>
Rank(st) == CHOOSE i \in 1..Len(StageOrder) : StageOrder[i] = st

\* the check a position of read_ovf2 belongs to
StageClass(pos) ==
    IF pos \in {"flag4", "flag8", "text"} THEN "block"
    ELSE IF pos \in {"count", "memmap"} THEN "count" ELSE pos

Fails(toks, st) ==
    LET head == HeadOf(toks)
        md == HeaderOf(toks)
        mode == ModeOf(head)
        N == NodeCount(md)
        w == IF mode = S_Binary4 THEN 4 ELSE 8
        text == extract_magnetic_data_from_text(Flat(toks))
    IN  CASE st = "first" -> ~FirstLineOk(toks)
          [] st = "markers" -> ~HeaderMarkersFound(head)
          [] st = "coerce" -> HeaderMarkersFound(head) /\ extract_metadata(head).err # "none"
          [] st = "mesh" -> ~MeshTypeOk(md)
          [] st = "valuedim" -> ~ValuedimOk(md)
          [] st = "nodes" -> ~NodesOk(md)
          [] st = "mode" -> mode \notin {S_Text, S_Binary4, S_Binary8}
          [] st = "block" -> IF mode = S_Text THEN text.err # "none"
                             ELSE IF mode \in {S_Binary4, S_Binary8} THEN ~FlagOk(toks, w)
                             ELSE FALSE
          [] st = "count" -> /\ NodesOk(md)
                             /\ IF mode = S_Text
                                THEN /\ text.err = "none"
                                     /\ \/ ~CountOk(text.m_flat, N)
                                        \/ ~reorder_xyz(text.m_flat, md[K_xnodes],
                                                        md[K_ynodes], md[K_znodes]).ok
                                ELSE IF mode \in {S_Binary4, S_Binary8}
                                THEN ~MemmapFits(toks, DataMarkerEnd(head) + w, w, 3 * N)
                                ELSE FALSE

KindAt(st) ==
    CASE st = "first" -> {"InvalidHeader"}
      [] st = "markers" -> {"HeaderNotFound"}
      [] st = "coerce" -> {"ValueError"}
      [] st = "mesh" -> {"UnsupportedMeshType"}
      [] st = "valuedim" -> {"UnsupportedValuedim"}
      [] st = "nodes" -> {"KeyError"}
      [] st = "mode" -> {"UnsupportedMode"}
      [] st = "block" -> {"FlagMismatch", "DataBlockNotFound", "MalformedPayload"}
      [] st = "count" -> {"NodeCountMismatch", "ValueError"}

\* C8: read_ovf2 is terminal on its first error.  The checks run in the order
\* first line, header markers, header coercion, mesh type, valuedim, (node
\* counts looked up), mode token, sentinel or data block, node count: when it
\* fails, the error is that of the earliest check the file fails and nothing
\* is returned; when it returns, the file fails no check.
C8_EarliestStageFails ==
    LET st == StageClass(rd.stage)
    IN  /\ rpc = "failed" =>
              /\ rd.mag = NoFrame
              /\ rd.err \in KindAt(st)
              /\ Fails(rd.toks, st)
              /\ \A i \in 1..(Rank(st) - 1) : ~Fails(rd.toks, StageOrder[i])
        /\ rpc = "done" =>
              /\ rd.mag.ok
              /\ \A i \in 1..Len(StageOrder) : ~Fails(rd.toks, StageOrder[i])

\* a file with two defects failed on the earlier one
C8_Witness ==
    /\ rpc = "failed"
    /\ rd.err = "UnsupportedMeshType"
    /\ Fails(rd.toks, "valuedim")

\* One of the data markers is absent from the file, or the end marker comes
\* before the begin marker.
DataMarkerMissing(toks) ==
    LET start == Find(Flat(toks), DATA_BEGIN_MARKER, 0)
        end == Find(Flat(toks), DATA_END_MARKER, 0)
    IN  start = -1 \/ end = -1 \/ end < start

\* C9: with a valid first line, header and schema, a file that lacks the data
\* begin marker or the data end marker, or has them in the wrong order, fails
\* with the "Data block not found" error and no other.
C9_MissingMarkerIsDataBlockNotFound ==
    (Returned /\ SchemaValid(rd.toks) /\ DataMarkerMissing(rd.toks)) =>
        (rpc = "failed" /\ rd.err = "DataBlockNotFound")

\* C10: reorder_xyz maps storage order (x fastest, then y, then z) to lattice
\* coordinates: the frame returned for a file that stores sample(x, y, z) in
\* that order has shape (X, Y, Z, 3) and holds sample(x, y, z) at [x, y, z].
C10_ReorderMapsStorageToLattice ==
    (rpc = "done" /\ IsFixture(rd.toks)) =>
        LET dims == DimsOf(HeaderOf(rd.toks))
        IN  /\ rd.mag.shape = <<dims[1], dims[2], dims[3], 3>>
            /\ \A x \in 0..(dims[1] - 1), y \in 0..(dims[2] - 1), z \in 0..(dims[3] - 1) :
                  \A c \in 0..2 :
                     rd.mag.at[<<x, y, z, c>>] = Num(Sample(0, x, y, z)[c + 1], 1)

\* a frame on a lattice with pairwise different node counts was returned
C10_Witness ==
    /\ rpc = "done"
    /\ IsFixture(rd.toks)
    /\ rd.mag.shape = <<1, 2, 3, 3>>

\* ======================================================================
\* Properties of the aggregator and the result reader (Spec)
\* ======================================================================
Fns == _collect_ovf_files(folder)
HdrAt(i) == HeaderOf(folder[Fns[i]])
FrameOfFile(toks) ==
    LET ff == CHOOSE f \in FolderFiles : ToksOf(f) = toks
    IN  LogicalFrame(ff.seed, ff.dims)

\* The time the fallback chain is to give: the first candidate key of the
\* header whose value, its trailing "s" stripped, is a number; else the first
\* number in the base name; else not-a-number.
RECURSIVE ChainHeaderTime(_, _)
ChainHeaderTime(hdr, ks) ==
    IF ks = <<>> THEN [ok |-> FALSE, v |-> NaN]
    ELSE IF Head(ks) \in DOMAIN hdr
            /\ ParseFloat(Strip(RemoveSuffix(hdr[Head(ks)], <<"s">>), Space)).ok
         THEN ParseFloat(Strip(RemoveSuffix(hdr[Head(ks)], <<"s">>), Space))
         ELSE ChainHeaderTime(hdr, Tail(ks))

ChainTime(hdr, path) ==
    IF ChainHeaderTime(hdr, HEADER_TIME_KEY_CANDIDATES).ok
    THEN ChainHeaderTime(hdr, HEADER_TIME_KEY_CANDIDATES).v
    ELSE IF FirstNumber(path) # <<>> /\ ParseFloat(FirstNumber(path)).ok
    THEN ParseFloat(FirstNumber(path)).v
    ELSE NaN

\* C3: the time of a frame is the number in its header's time field, a
\* trailing "s" stripped ("3.5s" gives 3.5); else the first number in the
\* file's base name; else not-a-number.  Slot 0 holds the time of file 0.
C3_TimeFallbackChain ==
    h5.exists => h5.time[1] = ChainTime(HdrAt(1), Fns[1])

\* C4: after a successful build, slot i holds the time derived from file i
\* itself and the frame decoded from file i.
C4_SlotFromOwnFile ==
    bpc = "done" =>
        \A i \in 1..Len(Fns) :
            /\ h5.time[i] = TimeOf(HdrAt(i), Fns[i])
            /\ h5.mag[i] = FrameOfFile(folder[Fns[i]])

\* C5: a container that a build left partially filled is never returned by a
\* later read_simulation_result without overwrite.
C5_NoPartialContainerReturned ==
    (out.status = "returned" /\ ~args.overwrite /\ builds = 0) =>
        written = 0..(Len(h5.time) - 1)

\* The schema-known keys present in both headers whose values differ.
Disagree(h0, h) == {k \in SchemaKeys : k \in DOMAIN h0 /\ k \in DOMAIN h /\ h0[k] # h[k]}

Range(seq) == {seq[i] : i \in 1..Len(seq)}

\* Every frame written after frame 0 agrees with frame 0 on the schema-known
\* keys both have, and a frame that was read and disagrees makes the build
\* abort with the inconsistent-metadata error, which names a key on which
\* they disagree, both values and both paths.
MismatchAborts ==
    /\ h5.exists => \A i \in written \ {0} : Disagree(HdrAt(1), HdrAt(i + 1)) = {}
    /\ (bpc = "raised" /\ rpc = "done") => b.exc.err = "InconsistentMetadata"
    /\ (bpc = "raised" /\ b.exc.err = "InconsistentMetadata") =>
          /\ b.ti >= 1
          /\ b.exc.key \in Disagree(HdrAt(1), HdrAt(b.ti + 1))
          /\ b.exc.val = HdrAt(b.ti + 1)[b.exc.key]
          /\ b.exc.first_val = HdrAt(1)[b.exc.key]
          /\ b.exc.path = Fns[b.ti + 1]
          /\ b.exc.first_path = Fns[1]
          /\ written = 0..(b.ti - 1)

\* C6 as stated: ... and neither frame i nor any later frame is written or read.
C6_Original ==
    /\ MismatchAborts
    /\ (bpc = "raised" /\ b.exc.err = "InconsistentMetadata") =>
          \A j \in b.ti..(Len(Fns) - 1) : j \notin written /\ Fns[j + 1] \notin Range(reads)

\* C6: during a build, every frame i >= 1 must agree with frame 0 on each
\* schema-known key both headers have; at the first frame i that disagrees the
\* build aborts with the inconsistent-metadata error naming the key, both
\* values and both paths; frame i, which was read, is not written, and no
\* later frame is read or written.
C6_MismatchAbortsBuild ==
    /\ MismatchAborts
    /\ (bpc = "raised" /\ b.exc.err = "InconsistentMetadata") =>
          /\ reads = SubSeq(Fns, 1, b.ti + 1)
          /\ \A j \in b.ti..(Len(Fns) - 1) : j \notin written
          /\ \A j \in (b.ti + 1)..(Len(Fns) - 1) : Fns[j + 1] \notin Range(reads)

\* frame 1 of 3 disagreed with frame 0 and the build aborted before frame 2
C6_Witness ==
    /\ bpc = "raised"
    /\ b.exc.err = "InconsistentMetadata"
    /\ b.exc.key = K_xnodes
    /\ b.ti = 1
    /\ Len(Fns) = 3

\* C7: read_simulation_result reuses an existing container: with the container
\* present and overwrite false the aggregator is not invoked and the file is
\* unchanged; with the container absent (and build_if_missing) or overwrite
\* true the aggregator is invoked exactly once; a result is returned only if
\* the stored shape is (len(time), xnodes, ynodes, znodes, 3).
C7_ReuseOrBuildOnce ==
    spc = "returned" =>
        /\ (h5pre.exists /\ ~args.overwrite) => (builds = 0 /\ h5 = h5pre)
        /\ ((~h5pre.exists /\ args.build_if_missing) \/ args.overwrite) => builds = 1
        /\ out.status = "returned" =>
              out.shape = <<Len(out.time), out.metadata[K_xnodes], out.metadata[K_ynodes],
                            out.metadata[K_znodes], 3>>

\* ------------------------------------------------------- header coercion errors
\* The failures read_ovf2 and its helpers raise as OVF2Error(fn, message); an
\* uncaught failure of int() or float() is Python's ValueError and a missing
\* key is KeyError, neither of which carries the file name.
OVF2ErrorKinds ==
    {"InvalidHeader", "HeaderNotFound", "UnsupportedMeshType", "UnsupportedValuedim",
     "UnsupportedMode", "FlagMismatch", "DataBlockNotFound", "MalformedPayload",
     "NodeCountMismatch"}

\* some header line has a schema key of type int or float whose value text
\* does not coerce
CoercionFails(toks) ==
    LET head == HeadOf(toks)
        lines == HeaderLines(head)
    IN  /\ FirstLineOk(toks)
        /\ HeaderMarkersFound(head)
        /\ \E i \in 1..Len(lines) :
              /\ \E j \in 1..Len(lines[i]) : lines[i][j] = ":"
              /\ \/ /\ HEADER_DTYPES(KeyOf(lines[i])) = "int"
                    /\ ~ParseInt(ValueOf(lines[i])).ok
                 \/ /\ HEADER_DTYPES(KeyOf(lines[i])) = "float"
                    /\ ~ParseFloat(ValueOf(lines[i])).ok

\* C11: when a header line's key is in the schema with type integer or
\* floating point and its value text cannot be coerced, the read fails with
\* the parser's own error kind (OVF2Error, which names the file) and no header
\* mapping and no frame are returned.
C11_CoercionFailureIsParserError ==
    (rpc \in {"failed", "done"} /\ CoercionFails(rd.toks)) =>
        /\ rpc = "failed"
        /\ rd.stage = "coerce"
        /\ rd.err \in OVF2ErrorKinds
        /\ rd.metadata = EmptyMd
        /\ rd.mag = NoFrame

====
